---- MODULE Spec2Model ----
(***************************************************************************)
(* Model of python/pyspark/sql/window.py: the Window / WindowSpec builder  *)
(* that wraps the JVM window specification.                                *)
(*                                                                         *)
(* Python integers are unbounded and the interesting values lie around     *)
(* 0, 2^63 and -(2^63), which TLC's integers cannot hold.  An integer is   *)
(* therefore the record [hi |-> k, lo |-> d] denoting k * 2^63 + d, with   *)
(* k in {-1, 0, 1} and |d| <= MaxOff (far below 2^62), so that comparison  *)
(* and negation on the records are exact.  sys.maxsize is that of a        *)
(* 64-bit CPython, 2^63 - 1.                                               *)
(***************************************************************************)
EXTENDS Integers, Sequences, FiniteSets, TLC

\* ------------------------------------------------------------------ bounds
\* Number of WindowSpec objects a run may create.
MaxSpecs == 3
\* Integer arguments are taken within MaxOff of 0, 2^63 and -(2^63).
MaxOff == 1

\* -------------------------------------------------------------- integers
Int63(k, d) == [hi |-> k, lo |-> d]

Zero == Int63(0, 0)

\* a <= b
Le(a, b) == \/ a.hi < b.hi
            \/ a.hi = b.hi /\ a.lo <= b.lo

\* a >= b
Ge(a, b) == Le(b, a)

\* -a
Neg(a) == Int63(-a.hi, -a.lo)

\* sys.maxsize = 2^63 - 1
sys_maxsize == Int63(1, -1)

\* _JAVA_MAX_LONG = (1 << 63) - 1
_JAVA_MAX_LONG == Int63(1, -1)

\* _JAVA_MIN_LONG = - (1 << 63)
_JAVA_MIN_LONG == Int63(-1, 0)

\* The integers a caller passes as start or end.
IntInputs == { Int63(k, d) : k \in {-1, 0, 1}, d \in (-MaxOff)..MaxOff }

\* --------------------------------------------------------------- columns
\* An element of *cols is a column name or a list of column names.
Str(name) == [list |-> FALSE, v |-> <<name>>]
Lst(names) == [list |-> TRUE, v |-> names]

\* The *cols tuples a caller passes: one name, or one list of names.
ColArgs == { <<Str("country")>>, <<Lst(<<"date", "country">>)>> }

\* _to_java_cols: a single list argument is unwrapped, then every element
\* becomes a column.
_to_java_cols(cols) ==
    IF Len(cols) = 1 /\ cols[1].list
    THEN cols[1].v
    ELSE [i \in 1..Len(cols) |-> cols[i].v[1]]

\* ------------------------------------------------- the wrapped JVM spec
\* The JVM window specification is an immutable value: partitioning keys,
\* ordering keys and frame.  Every method returns a new value.
NoFrame == [mode |-> "UNSPECIFIED", start |-> Zero, end |-> Zero]

JWindowSpec(p, o, f) == [partitionSpec |-> p, orderSpec |-> o, frame |-> f]

\* org.apache.spark.sql.expressions.Window.partitionBy(cols)
JWindow_partitionBy(jcols) == JWindowSpec(jcols, <<>>, NoFrame)

\* WindowSpec.partitionBy(cols) on the JVM
J_partitionBy(jspec, jcols) == JWindowSpec(jcols, jspec.orderSpec, jspec.frame)

\* WindowSpec.orderBy(cols) on the JVM
J_orderBy(jspec, jcols) == JWindowSpec(jspec.partitionSpec, jcols, jspec.frame)

\* WindowSpec.rowsBetween(start: Long, end: Long) on the JVM
J_rowsBetween(jspec, s, e) ==
    JWindowSpec(jspec.partitionSpec, jspec.orderSpec,
                [mode |-> "ROWS", start |-> s, end |-> e])

\* WindowSpec.rangeBetween(start: Long, end: Long) on the JVM
J_rangeBetween(jspec, s, e) ==
    JWindowSpec(jspec.partitionSpec, jspec.orderSpec,
                [mode |-> "RANGE", start |-> s, end |-> e])

\* A frame offset is a 64-bit signed integer: a value outside
\* [-(2^63), 2^63 - 1] cannot be passed and the call raises.
FitsLong(n) == Le(_JAVA_MIN_LONG, n) /\ Le(n, _JAVA_MAX_LONG)

\* ----------------------------------------------------------------- state
VARIABLES
    objs,   \* the WindowSpec objects created so far, each with its _jspec
    made,   \* made[i]: the call that returned objs[i]
    last,   \* the latest call: arguments, values forwarded, outcome
    args    \* the start and end the calling program passes to frame calls

vars == <<objs, made, last, args>>

\* WindowSpec.__init__
WindowSpec(jspec) == [_jspec |-> jspec]

Call(op, self, cols, start, end) ==
    [op |-> op, self |-> self, cols |-> cols, start |-> start, end |-> end]

Outcome(op, self, cols, start, end, jstart, jend, raised, ret) ==
    [op |-> op, self |-> self, cols |-> cols, start |-> start, end |-> end,
     jstart |-> jstart, jend |-> jend, raised |-> raised, ret |-> ret]

Init ==
    /\ objs = <<>>
    /\ made = <<>>
    /\ last = Outcome("none", 0, <<>>, Zero, Zero, Zero, Zero, FALSE, 0)
    /\ args \in [start : IntInputs, end : IntInputs]

\* return WindowSpec(jspec): a new object, nothing else touched
Return(jspec, op, self, cols) ==
    /\ objs' = Append(objs, WindowSpec(jspec))
    /\ made' = Append(made, Call(op, self, cols, Zero, Zero))
    /\ last' = Outcome(op, self, cols, Zero, Zero, Zero, Zero, FALSE, Len(objs) + 1)
    /\ UNCHANGED args

\* ---------------------------------------------------------------- Window
Window_partitionBy(cols) ==
    /\ Len(objs) < MaxSpecs
    /\ Return(JWindow_partitionBy(_to_java_cols(cols)), "Window.partitionBy", 0, cols)

\* The static orderBy calls the JVM Window.partitionBy.
Window_orderBy(cols) ==
    /\ Len(objs) < MaxSpecs
    /\ Return(JWindow_partitionBy(_to_java_cols(cols)), "Window.orderBy", 0, cols)

\* ------------------------------------------------------------ WindowSpec
\* partitionBy that stores the new _jspec in the receiver and returns self.
WindowSpec_partitionBy_inplace(self, cols) ==
    /\ Len(objs) < MaxSpecs
    /\ objs' = [objs EXCEPT ![self] =
                    WindowSpec(J_partitionBy(objs[self]._jspec, _to_java_cols(cols)))]
    /\ last' = Outcome("WindowSpec.partitionBy", self, cols,
                       Zero, Zero, Zero, Zero, FALSE, self)
    /\ UNCHANGED <<made, args>>

WindowSpec_partitionBy(self, cols) ==
    /\ Len(objs) < MaxSpecs
    /\ Return(J_partitionBy(objs[self]._jspec, _to_java_cols(cols)),
              "WindowSpec.partitionBy", self, cols)

\* orderBy that calls the JVM partitionBy, as the static orderBy does.
WindowSpec_orderBy_partitions(self, cols) ==
    /\ Len(objs) < MaxSpecs
    /\ Return(J_partitionBy(objs[self]._jspec, _to_java_cols(cols)),
              "WindowSpec.orderBy", self, cols)

WindowSpec_orderBy(self, cols) ==
    /\ Len(objs) < MaxSpecs
    /\ Return(J_orderBy(objs[self]._jspec, _to_java_cols(cols)),
              "WindowSpec.orderBy", self, cols)

\* if start <= -sys.maxsize: start = self._JAVA_MIN_LONG
rowsBetween_start(start) ==
    IF Le(start, Neg(sys_maxsize)) THEN _JAVA_MIN_LONG ELSE start

\* rowsBetween's end test with a stray minus sign: end >= -sys.maxsize.
rowsBetween_end_minus(end) ==
    IF Ge(end, Neg(sys_maxsize)) THEN _JAVA_MAX_LONG ELSE end

\* if end >= sys.maxsize: end = self._JAVA_MAX_LONG
rowsBetween_end(end) ==
    IF Ge(end, sys_maxsize) THEN _JAVA_MAX_LONG ELSE end

\* rangeBetween's start test made strict: start < -sys.maxsize.
rangeBetween_start_strict(start) ==
    IF ~Ge(start, Neg(sys_maxsize)) THEN _JAVA_MIN_LONG ELSE start

\* if start <= -sys.maxsize: start = self._JAVA_MIN_LONG
rangeBetween_start(start) ==
    IF Le(start, Neg(sys_maxsize)) THEN _JAVA_MIN_LONG ELSE start

\* if end >= sys.maxsize: end = self._JAVA_MAX_LONG
rangeBetween_end(end) ==
    IF Ge(end, sys_maxsize) THEN _JAVA_MAX_LONG ELSE end

\* return WindowSpec(self._jspec.<method>(s, e)), or the call raises when
\* s or e is no 64-bit integer; jspec is the JVM method's result.
Forward(op, self, start, end, s, e, jspec) ==
    /\ IF FitsLong(s) /\ FitsLong(e)
       THEN /\ objs' = Append(objs, WindowSpec(jspec))
            /\ made' = Append(made, Call(op, self, <<>>, start, end))
            /\ last' = Outcome(op, self, <<>>, start, end, s, e, FALSE, Len(objs) + 1)
       ELSE /\ last' = Outcome(op, self, <<>>, start, end, s, e, TRUE, 0)
            /\ UNCHANGED <<objs, made>>
    /\ UNCHANGED args

WindowSpec_rowsBetween(self, start, end) ==
    /\ Len(objs) < MaxSpecs
    /\ LET s == rowsBetween_start(start)
           e == rowsBetween_end(end)
       IN  Forward("rowsBetween", self, start, end, s, e,
                   J_rowsBetween(objs[self]._jspec, s, e))

WindowSpec_rangeBetween(self, start, end) ==
    /\ Len(objs) < MaxSpecs
    /\ LET s == rangeBetween_start(start)
           e == rangeBetween_end(end)
       IN  Forward("rangeBetween", self, start, end, s, e,
                   J_rangeBetween(objs[self]._jspec, s, e))

Next ==
    \/ \E cols \in ColArgs : Window_partitionBy(cols)
    \/ \E cols \in ColArgs : Window_orderBy(cols)
    \/ \E self \in DOMAIN objs, cols \in ColArgs : WindowSpec_partitionBy(self, cols)
    \/ \E self \in DOMAIN objs, cols \in ColArgs : WindowSpec_orderBy(self, cols)
    \/ \E self \in DOMAIN objs : WindowSpec_rowsBetween(self, args.start, args.end)
    \/ \E self \in DOMAIN objs : WindowSpec_rangeBetween(self, args.start, args.end)

Spec == Init /\ [][Next]_vars

\* ---------------------------------------------------------------- claims
FrameOps == {"rowsBetween", "rangeBetween"}

\* The column names a *cols tuple names, in order.
RECURSIVE Named(_)
Named(cols) == IF cols = <<>> THEN <<>> ELSE cols[1].v \o Named(Tail(cols))

\* The receiver of the call that returned objs[i]; 0 for a static call.
Parent(i) == made[i].self

\* C1: in rowsBetween and in rangeBetween, a start <= -sys.maxsize is
\* forwarded as exactly -(2^63) and an end >= sys.maxsize as exactly
\* 2^63 - 1.
C1_ClampToSentinels ==
    last.op \in FrameOps =>
        /\ Le(last.start, Neg(sys_maxsize)) => last.jstart = Int63(-1, 0)
        /\ Ge(last.end, sys_maxsize) => last.jend = Int63(1, -1)

\* A frame call with start below -(2^63) and end above 2^63 - 1 returned a
\* spec whose frame runs from -(2^63) to 2^63 - 1.
C1_Witness ==
    /\ last.op \in FrameOps
    /\ last.start = Int63(-1, -1)
    /\ last.end = Int63(1, 0)
    /\ ~last.raised
    /\ objs[last.ret]._jspec.frame.start = Int63(-1, 0)
    /\ objs[last.ret]._jspec.frame.end = Int63(1, -1)

\* C2: the static Window.orderBy(cols) returns a spec whose ordering keys
\* are cols and whose partitioning keys are empty.
C2_StaticOrderBySetsOrdering ==
    last.op = "Window.orderBy" =>
        /\ objs[last.ret]._jspec.orderSpec = Named(last.cols)
        /\ objs[last.ret]._jspec.partitionSpec = <<>>

\* C3: for every integer start and end, a frame call does not fail and
\* both forwarded values lie in [-(2^63), 2^63 - 1].
C3_ForwardedFitLong ==
    last.op \in FrameOps =>
        /\ ~last.raised
        /\ Le(Int63(-1, 0), last.jstart) /\ Le(last.jstart, Int63(1, -1))
        /\ Le(Int63(-1, 0), last.jend) /\ Le(last.jend, Int63(1, -1))

\* C4: a builder call on a WindowSpec leaves every existing object, its
\* _jspec included, as it was, and what it returns is a new object.
C4_BuildersReturnNew ==
    [][ /\ \A i \in DOMAIN objs : i \in DOMAIN objs' /\ objs'[i] = objs[i]
        /\ (last' # last /\ ~last'.raised) =>
               /\ last'.ret \notin DOMAIN objs
               /\ last'.ret \in DOMAIN objs' ]_vars

\* Every builder method has been called on a receiver, and each receiver
\* still differs from what the call on it returned.
C4_Witness ==
    /\ Len(objs) = 3
    /\ made[2].op = "WindowSpec.partitionBy" /\ Parent(2) = 1
    /\ made[3].op = "rowsBetween" /\ Parent(3) = 2
    /\ objs[1] # objs[2] /\ objs[2] # objs[3]
    /\ objs[2]._jspec.frame = NoFrame

\* C5: Window.partitionBy(P).orderBy(O).rowsBetween(-sys.maxsize, 0) is
\* PARTITION BY P ORDER BY O ROWS BETWEEN UNBOUNDED PRECEDING AND CURRENT
\* ROW: keys P and O, mode ROWS, start -(2^63), end 0.
C5_Chain(i) ==
    /\ made[i].op = "rowsBetween"
    /\ made[i].start = Neg(sys_maxsize)
    /\ made[i].end = Zero
    /\ made[Parent(i)].op = "WindowSpec.orderBy"
    /\ made[Parent(Parent(i))].op = "Window.partitionBy"

C5_DocstringChain ==
    \A i \in DOMAIN objs :
        C5_Chain(i) =>
            /\ objs[i]._jspec.partitionSpec = Named(made[Parent(Parent(i))].cols)
            /\ objs[i]._jspec.orderSpec = Named(made[Parent(i)].cols)
            /\ objs[i]._jspec.frame =
                   [mode |-> "ROWS", start |-> Int63(-1, 0), end |-> Zero]

\* The chain was run with P = ("country") and O = (["date", "country"]).
C5_Witness ==
    /\ Len(objs) = 3
    /\ C5_Chain(3)
    /\ made[1].cols = <<Str("country")>>
    /\ made[2].cols = <<Lst(<<"date", "country">>)>>
    /\ objs[3]._jspec.orderSpec = <<"date", "country">>

\* C6: Window.orderBy(O).partitionBy(P) and Window.partitionBy(P).orderBy(O)
\* denote the same specification, partitioning P and ordering O.
C6_OrderOfCallsIrrelevant ==
    \A i \in DOMAIN objs :
        /\ (made[i].op = "WindowSpec.orderBy" /\ Parent(i) # 0
               /\ made[Parent(i)].op = "Window.partitionBy") =>
               /\ objs[i]._jspec.partitionSpec = Named(made[Parent(i)].cols)
               /\ objs[i]._jspec.orderSpec = Named(made[i].cols)
        /\ (made[i].op = "WindowSpec.partitionBy" /\ Parent(i) # 0
               /\ made[Parent(i)].op = "Window.orderBy") =>
               /\ objs[i]._jspec.partitionSpec = Named(made[i].cols)
               /\ objs[i]._jspec.orderSpec = Named(made[Parent(i)].cols)

\* C7: for start > end a frame call returns a WindowSpec whose frame is the
\* clamped pair, and raises nothing.
C7_NoOrderCheck ==
    (last.op \in FrameOps /\ ~Le(last.start, last.end)) =>
        /\ ~last.raised
        /\ last.ret \in DOMAIN objs
        /\ objs[last.ret]._jspec.frame.start = last.jstart
        /\ objs[last.ret]._jspec.frame.end = last.jend

\* C8: with -sys.maxsize < start and end < sys.maxsize, both frame calls
\* forward exactly (start, end).
C8_FinitePassThrough ==
    (/\ last.op \in FrameOps
     /\ ~Le(last.start, Neg(sys_maxsize))
     /\ ~Ge(last.end, sys_maxsize)) =>
        /\ last.jstart = last.start
        /\ last.jend = last.end

\* rangeBetween(-1, 1) returned a spec with the frame RANGE from -1 to 1.
C8_Witness ==
    /\ last.op = "rangeBetween"
    /\ last.start = Int63(0, -1)
    /\ last.end = Int63(0, 1)
    /\ ~last.raised
    /\ objs[last.ret]._jspec.frame =
           [mode |-> "RANGE", start |-> Int63(0, -1), end |-> Int63(0, 1)]

\* C9: for start <= end the forwarded pair satisfies start' <= end', with
\* start' <= start and end' >= end.
C9_ClampKeepsOrder ==
    (last.op \in FrameOps /\ Le(last.start, last.end)) =>
        /\ Le(last.jstart, last.jend)
        /\ Le(last.jstart, last.start)
        /\ Ge(last.jend, last.end)
====
